---- MODULE Spec2Model ----
(***************************************************************************)
(* NRK-Downloader: the download endpoint (POST /api/download), the probe   *)
(* endpoint (GET /api/inspect), the URL allow-list check, the filename     *)
(* sanitiser, the rate limiters and the logger, modelled as state          *)
(* machines.                                                               *)
(*                                                                         *)
(* Five specifications share the variables of this module:                 *)
(*   SpecHost  isAllowedUrl applied to one URL (pure function)             *)
(*   SpecSan   sanitizeFilename applied to one string (pure function)      *)
(*   SpecRL    the in-memory rate limiters under a sequence of requests    *)
(*   SpecLog   the singleton logger under concurrent download requests     *)
(*   Spec      one POST /api/download request with its yt-dlp children, or *)
(*             one GET /api/inspect request with its yt-dlp child          *)
(***************************************************************************)
EXTENDS Integers, Sequences, FiniteSets, TLC

VARIABLES
    hUrl,       \* SpecHost: the URL string handed to isAllowedUrl
    hVerdict,   \* SpecHost: "unset", or "true"/"false" as isAllowedUrl returned
    sanIn,      \* SpecSan: the string handed to sanitizeFilename
    sanDone,    \* SpecSan: whether sanitizeFilename has returned
    sanOut,     \* SpecSan: the string sanitizeFilename returned
    deployment, \* which limiter the process runs: "legacy" (rateLimitOk),
                \* "memory" (rateLimit, REDIS_URL unset), "redis" (rateLimit, REDIS_URL set)
    now,        \* Date.now() in milliseconds
    ticks,      \* how many times the clock has advanced
    calls,      \* how many times a rate limiter has been called
    memoryHits, \* rateLimit.ts memoryHits: key -> [count, resetAt]
    hits,       \* rateLimit.ts hits: ip -> [count, ts]
    zset,       \* Redis: key -> the members (timestamps) of its sorted set
    admitted,   \* the requests let through so far: [ip, t, via], oldest first
    decisions,  \* every call of rateLimit so far: [ip, t, exec, allowed], oldest first
    body,       \* POST: the request body as sent
    url,        \* POST: the handler's variable url (NoUrl until the body is read)
    pc,         \* POST: where the handler is
    response,   \* POST: the response the client gets
    aborted,    \* req.signal.aborted
    listeners,  \* the 'abort' listeners registered on req.signal
    child,      \* the yt-dlp children of the request: title, direct, temp
    spawned,    \* the yt-dlp children started, in order
    dp,         \* streamFromStdout: its promise, flags, start timer and stream
    grace,      \* per child, the SIGKILL timers that are armed
    tp,         \* streamFromTempFile: its promise, exit handler and file stream
    tempCalls,  \* how many times streamFromTempFile has been called
    files,      \* the files in TMP_DIR named '<requestId>.*'
    cleanups,   \* the cleanupTempFiles calls, by call site
    insp,       \* GET /api/inspect: the handler's position, url, child, timers, answer
    loggerRequestId, \* logger.ts: the singleton's private field requestId
    lpc,        \* per concurrent download request, where its handler is
    entries     \* the log entries written: [by, requestId], oldest first

hostVars == <<hUrl, hVerdict>>
sanVars  == <<sanIn, sanDone, sanOut>>
rlVars   == <<deployment, now, ticks, calls, memoryHits, hits, zset, admitted, decisions>>
reqVars  == <<body, url, pc, response, aborted, listeners, child, spawned, dp, grace,
              tp, tempCalls, files, cleanups>>
inspVars == <<insp>>
logVars  == <<loggerRequestId, lpc, entries>>
vars == <<hUrl, hVerdict, sanIn, sanDone, sanOut, deployment, now, ticks, calls,
         memoryHits, hits, zset, admitted, decisions, body, url, pc, response, aborted,
         listeners, child, spawned, dp, grace, tp, tempCalls, files, cleanups,
         insp, loggerRequestId, lpc, entries>>

Range(s) == {s[i] : i \in 1..Len(s)}

RECURSIVE SeqsUpTo(_, _)
SeqsUpTo(S, n) ==
    IF n = 0 THEN {<<>>}
    ELSE LET shorter == SeqsUpTo(S, n - 1)
         IN  shorter \cup {Append(s, x) : s \in {t \in shorter : Len(t) = n - 1}, x \in S}

(***************************************************************************)
(* URLs.  A URL string is a record: scheme, userinfo present or not, the   *)
(* host as its sequence of dot-separated labels exactly as typed (any      *)
(* case), the path as its non-empty segments plus whether it ends in a     *)
(* slash, and whether the string parses at all.                            *)
(***************************************************************************)
MaxLabels == 4

HostLabels == {"www", "tv", "nrk", "no", "evil"}

\* labels that are 1-3 decimal digits
DigitLabels == {"127", "0", "1"}

SpecialHosts ==
    { <<"radio", "nrk", "no">>, <<"nrkbeta", "no">>, <<"www", "nrkbeta", "no">>,
      <<"TV", "NRK", "no">>, <<"WWW", "NRK", "NO">>, <<"WWW", "tv", "nrk", "no">>,
      <<"localhost">>, <<"127", "0", "0", "1">>, <<"[::1]">>,
      <<"nrk", "no", "evil", "com">>, <<"IDN:blabaer", "no">> }

Hosts == (SeqsUpTo(HostLabels, MaxLabels) \ {<<>>}) \cup SpecialHosts

Paths ==
    { [segs |-> <<>>, trail |-> TRUE],
      [segs |-> <<"serie">>, trail |-> FALSE],
      [segs |-> <<"serie">>, trail |-> TRUE],
      [segs |-> <<"serie", "x">>, trail |-> FALSE],
      [segs |-> <<"serie", "x">>, trail |-> TRUE],
      [segs |-> <<"SERIE", "x">>, trail |-> FALSE],
      [segs |-> <<"serie", "x", "s1e1">>, trail |-> FALSE],
      [segs |-> <<"video", "x">>, trail |-> FALSE],
      [segs |-> <<"nyheter", "x">>, trail |-> FALSE] }

Schemes == {"https", "http", "ftp"}

\* String.prototype.toLowerCase on one label / path segment
toLowerCase(l) ==
    CASE l = "NRK" -> "nrk"
      [] l = "TV" -> "tv"
      [] l = "WWW" -> "www"
      [] l = "NO" -> "no"
      [] l = "SERIE" -> "serie"
      [] OTHER -> l

\* punycode.toASCII on one label: non-ASCII labels become xn-- labels
toASCII(l) ==
    IF l = "IDN:blabaer" THEN "xn--blbr-roah" ELSE l

\* new URL(urlStr): throws on a string that is no URL; otherwise the
\* hostname is lower-cased and IDNA-encoded, the pathname starts with "/"
URLparse(s) ==
    IF ~s.wellFormed THEN [ok |-> FALSE]
    ELSE [ok |-> TRUE,
          protocol |-> s.scheme,
          username |-> s.user,
          hostname |-> [i \in 1..Len(s.host) |-> toASCII(toLowerCase(s.host[i]))],
          pathname |-> s.path]

normalizeHost_anyLabel(host) ==
    LET h == [i \in 1..Len(host) |-> toLowerCase(host[i])]
        s == IF Len(h) > 1 THEN Tail(h) ELSE h
    IN  [i \in 1..Len(s) |-> toASCII(s[i])]

\* host.ts normalizeHost: trim, lower-case, drop one leading "www.", punycode
normalizeHost(host) ==
    LET h == [i \in 1..Len(host) |-> toLowerCase(host[i])]
        s == IF Len(h) > 1 /\ h[1] = "www" THEN Tail(h) ELSE h
    IN  [i \in 1..Len(s) |-> toASCII(s[i])]

\* host.ts isIpLike
isIpLike(host) ==
    \/ Len(host) = 4 /\ \A i \in 1..4 : host[i] \in DigitLabels
    \/ host = <<"localhost">>
    \/ \E i \in 1..Len(host) : host[i] = "[::1]"

\* env.ts EnvSchema.ALLOW_DOMAINS (default value, already split and trimmed)
ALLOW_DOMAINS ==
    << <<"nrk", "no">>, <<"tv", "nrk", "no">>, <<"www", "nrk", "no">>,
       <<"radio", "nrk", "no">>, <<"nrkbeta", "no">> >>

\* route.ts POST: const allow = env.ALLOW_DOMAINS.map((h) => normalizeHost(h))
allow == [i \in 1..Len(ALLOW_DOMAINS) |-> normalizeHost(ALLOW_DOMAINS[i])]

\* path.startsWith('/' + first + '/')
PathStartsWith(path, first) ==
    /\ Len(path.segs) >= 1
    /\ path.segs[1] = first
    /\ (Len(path.segs) >= 2 \/ path.trail)

lowerPath(path) ==
    [segs |-> [i \in 1..Len(path.segs) |-> toLowerCase(path.segs[i])], trail |-> path.trail]

videoPathPatterns == {"video", "serie", "program", "podkast", "radio", "tv", "super", "p3"}

\* isAllowedUrl without the allow-list test of line 27
isAllowedUrl_noListTest(urlStr, allowList) ==
    LET u == URLparse(urlStr)
    IN  u.ok /\ u.protocol = "https" /\ ~isIpLike(normalizeHost(u.hostname))

\* host.ts isAllowedUrl
isAllowedUrl(urlStr, allowList) ==
    LET u == URLparse(urlStr)
    IN  IF ~u.ok THEN FALSE
        ELSE IF u.protocol # "https" THEN FALSE
        ELSE LET host == normalizeHost(u.hostname)
                 path == lowerPath(u.pathname)
             IN  IF isIpLike(host) THEN FALSE
                 ELSE IF host \notin Range(allowList) THEN FALSE
                 ELSE IF /\ host \in {<<"tv", "nrk", "no">>, <<"radio", "nrk", "no">>}
                         /\ PathStartsWith(path, "serie")
                         /\ Len(path.segs) = 2
                      THEN FALSE
                 ELSE IF host \in {<<"nrk", "no">>, <<"www", "nrk", "no">>}
                      THEN IF path.segs = <<>> THEN FALSE
                           ELSE \E p \in videoPathPatterns : PathStartsWith(path, p)
                 ELSE TRUE

UrlStrings ==
    [scheme : Schemes, user : BOOLEAN, host : Hosts, path : Paths, wellFormed : BOOLEAN]

NoUrl == [scheme |-> "none"]

HostIdle == hUrl = NoUrl /\ hVerdict = "unset"

(***************************************************************************)
(* sanitizeFilename.  A string is a sequence of UTF-16 code units, each    *)
(* named by one of the strings below.                                      *)
(***************************************************************************)
MaxLen == 2

ForbiddenChars == {"/", "\\", ":", "*", "?", "\"", "<", ">", "|"}
\* C0 controls that \s does not match, and DEL
C0Chars == {"U+0001", "U+007F"}
\* C0 controls that \s matches
C0Space == {"TAB", "LF"}
\* C1 controls (U+0080..U+009F)
C1Chars == {"U+0085"}
\* other characters \s matches: space, and the line separator U+2028
OtherSpace == {" ", "U+2028"}
\* compatibility characters NFKC rewrites: fullwidth solidus and colon,
\* no-break space, the fi ligature
CompatChars == {"U+FF0F", "U+FF1A", "U+00A0", "U+FB01"}
\* ordinary characters: ASCII letters, a Norwegian letter, a surrogate half
PlainChars == {"a", "f", "i", "_", "U+00F8", "U+D83C"}

Chars == ForbiddenChars \cup C0Chars \cup C0Space \cup C1Chars \cup OtherSpace
            \cup CompatChars \cup PlainChars

ControlChars == C0Chars \cup C0Space \cup C1Chars

\* String.prototype.normalize('NFKC') on one code unit
NFKC(c) ==
    CASE c = "U+FF0F" -> <<"/">>
      [] c = "U+FF1A" -> <<":">>
      [] c = "U+00A0" -> <<" ">>
      [] c = "U+FB01" -> <<"f", "i">>
      [] OTHER -> <<c>>

RECURSIVE normalize(_)
normalize(s) ==
    IF s = <<>> THEN <<>>
    ELSE IF Len(s) = 1 THEN NFKC(s[1])
    ELSE LET half == Len(s) \div 2
         IN  normalize(SubSeq(s, 1, half)) \o normalize(SubSeq(s, half + 1, Len(s)))

\* the class \s
IsSpace(c) == c \in C0Space \cup OtherSpace \cup {"U+00A0"}

\* the class [^\x20-\x7E\u00A0-\uFFFF]
OutOfRange(c) == c \in C0Chars \cup C0Space \cup C1Chars

\* .replace(/[\/\\:*?"<>|]/g, '_')
replaceForbidden(s) == [i \in 1..Len(s) |-> IF s[i] \in ForbiddenChars THEN "_" ELSE s[i]]

\* .replace(/\s+/g, ' '): the first character of a run becomes a space, the
\* rest of the run goes
collapseWhitespace(s) ==
    LET marked == [i \in 1..Len(s) |->
                     IF ~IsSpace(s[i]) THEN s[i]
                     ELSE IF i > 1 /\ IsSpace(s[i - 1]) THEN "dropped" ELSE " "]
    IN  SelectSeq(marked, LAMBDA c : c # "dropped")

\* .replace(/[\x00-\x1F\x7F]/g, '')
removeControl(s) == SelectSeq(s, LAMBDA c : c \notin C0Chars \cup C0Space)

\* .replace(/[^\x20-\x7E\u00A0-\uFFFF]/g, '_')
replaceOutOfRange(s) == [i \in 1..Len(s) |-> IF OutOfRange(s[i]) THEN "_" ELSE s[i]]

\* .trim()
trim(s) ==
    LET kept == {i \in 1..Len(s) : ~IsSpace(s[i])}
    IN  IF kept = {} THEN <<>>
        ELSE SubSeq(s, CHOOSE i \in kept : \A j \in kept : i <= j,
                       CHOOSE i \in kept : \A j \in kept : i >= j)

\* host.ts sanitizeFilename: .slice(0, 120)
MAX_NAME == 120

slice(s, n) == IF Len(s) <= n THEN s ELSE SubSeq(s, 1, n)

\* the sanitiser without its control-character and range steps
sanitizeFilename_noControlStep(name) ==
    slice(trim(collapseWhitespace(replaceForbidden(name))), MAX_NAME)

\* the sanitiser normalising after the replacement instead of before it
sanitizeFilename_lateNFKC(name) ==
    slice(trim(replaceOutOfRange(removeControl(collapseWhitespace(
        normalize(replaceForbidden(name)))))), MAX_NAME)

\* the sanitiser slicing before it normalises
sanitizeFilename_earlySlice(name) ==
    trim(replaceOutOfRange(removeControl(collapseWhitespace(
        replaceForbidden(normalize(slice(name, MAX_NAME)))))))

\* host.ts sanitizeFilename (lib/filename.ts)
sanitizeFilename(name) ==
    slice(trim(replaceOutOfRange(removeControl(collapseWhitespace(
        replaceForbidden(normalize(name)))))), MAX_NAME)

Fill(n) == [i \in 1..n |-> "a"]

\* lengths of the padding that put the result below, at and above the limit
FillLens == {0, MAX_NAME - 1, MAX_NAME, MAX_NAME + 1}

SanInputs ==
    {s \o Fill(n) : s \in SeqsUpTo(Chars, MaxLen), n \in FillLens}
        \cup {Fill(n) \o s : s \in SeqsUpTo(Chars, MaxLen), n \in FillLens}

SanIdle == sanIn = <<>> /\ sanDone = FALSE /\ sanOut = <<>>

(***************************************************************************)
(* The state of one POST /api/download request before it arrives.          *)
(***************************************************************************)
Kinds == {"title", "direct", "temp"}

NoChild ==
    [st |-> "none", killed |-> FALSE, term |-> FALSE, kill |-> FALSE,
     ignoresTerm |-> FALSE, stdout |-> "none"]

NoResponse ==
    [kind |-> "none", status |-> 0, code |-> "none", requestId |-> FALSE, retryAfterMs |-> 0]

\* route.ts apiError: a JSON body with code, message and the options given
apiError(code, status, requestId) ==
    [kind |-> "apiError", status |-> status, code |-> code, requestId |-> requestId,
     retryAfterMs |-> 0]

\* new NextResponse(stream, { status: 200, headers })
streamResponse(which) ==
    [kind |-> which, status |-> 200, code |-> "none", requestId |-> FALSE,
     retryAfterMs |-> 0]

\* what the framework answers when the handler's promise rejects
unhandledError ==
    [kind |-> "unhandled", status |-> 500, code |-> "none", requestId |-> FALSE,
     retryAfterMs |-> 0]

\* POST lines 552-556: the answer to a request the limiter denied
rateLimited == [apiError("RATE_LIMITED", 429, TRUE) EXCEPT !.retryAfterMs = 60000]

NoDp ==
    [promise |-> "none", hasStarted |-> FALSE, hasErrored |-> FALSE, timer |-> "none",
     stream |-> "none", cancelled |-> FALSE, seen |-> 0, chunks |-> 0,
     nonZero |-> FALSE, queue |-> <<>>]

NoTp == [promise |-> "none", settled |-> FALSE, exit |-> "none", nodeStream |-> "none"]

Sites == {"abort", "exit", "close", "streamError", "procError"}

NoCleanup == [phase |-> "idle", snap |-> {}]

FileNames == {"mp4", "f1.mp4"}

\* chunks yt-dlp writes to stdout in one run
MaxChunks == 2

ReqIdle ==
    /\ body = [kind |-> "none"]
    /\ url = NoUrl
    /\ pc = "idle"
    /\ response = NoResponse
    /\ aborted = FALSE
    /\ listeners = <<>>
    /\ child = [k \in Kinds |-> NoChild]
    /\ spawned = <<>>
    /\ dp = NoDp
    /\ grace = [k \in Kinds |-> 0]
    /\ tp = NoTp
    /\ tempCalls = 0
    /\ files = {}
    /\ cleanups = [x \in Sites |-> NoCleanup]

\* GET /api/inspect before a request arrives
NoInsp ==
    [pc |-> "idle", query |-> [kind |-> "none"], url |-> NoUrl, child |-> NoChild,
     timer |-> "none", grace |-> 0, status |-> 0]

InspIdle == insp = NoInsp

\* the download requests the process handles at the same time
MaxRequests == 2
Requests == 1..MaxRequests

\* logger.ts line 25: private requestId: string | null = null
NoRequestId == 0

LogIdle ==
    /\ loggerRequestId = NoRequestId
    /\ lpc = [r \in Requests |-> "idle"]
    /\ entries = <<>>

(***************************************************************************)
(* Rate limiters (lib/rateLimit.ts).                                       *)
(***************************************************************************)
\* const WINDOW_MS = 60_000 (rateLimitOk) and const windowMs = 60_000 (rateLimit)
WINDOW_MS == 60000
\* const MAX_REQUESTS = 5
MAX_REQUESTS == 5
\* env.RATE_LIMIT_PER_MINUTE as configured (any positive integer; the
\* default is 30)
RATE_LIMIT_PER_MINUTE == 2

IPs == {"10.0.0.1", "10.0.0.2"}

\* the clock advances by a millisecond or by a whole window
Deltas == {1, WINDOW_MS}
MaxTicks == 2
\* calls of rateLimit in one run
MaxCalls == 4
\* calls of rateLimitOk in one run
MaxLegacyCalls == 7

\* what pipeline.exec() does: answers, rejects, resolves to null, or
\* answers with an error in place of each command's reply
ExecOutcomes == {"ok", "reject", "null", "cmderr"}

\* the two limiters keep separate maps, so a run exercises one of them
Deployments == {"legacy", "memory", "redis"}

EmptyMap == [k \in {} |-> 0]

RlIdle ==
    /\ deployment = "memory"
    /\ now = 0
    /\ ticks = 0
    /\ calls = 0
    /\ memoryHits = EmptyMap
    /\ hits = EmptyMap
    /\ zset = EmptyMap
    /\ admitted = <<>>
    /\ decisions = <<>>

Put(map, k, v) == [x \in DOMAIN map \cup {k} |-> IF x = k THEN v ELSE map[x]]
Remove(map, ks) == [x \in DOMAIN map \ ks |-> map[x]]

\* rateLimitOk with a sliding log instead of the fixed window is not what
\* the code does; the code's record is [count, ts]
rateLimitOk_result(ip, t, map) ==
    IF ip \notin DOMAIN map \/ t - map[ip].ts > WINDOW_MS
    THEN [allowed |-> TRUE, hits |-> Put(map, ip, [count |-> 1, ts |-> t])]
    ELSE IF map[ip].count >= MAX_REQUESTS
    THEN [allowed |-> FALSE, hits |-> map]
    ELSE [allowed |-> TRUE,
          hits |-> Put(map, ip, [count |-> map[ip].count + 1, ts |-> map[ip].ts])]

\* rateLimit, Redis pipeline: zadd, zremrangebyscore, zcard on the key's set
redisPipeline(members, t) ==
    {m \in members \cup {t} : ~(0 <= m /\ m <= t - WINDOW_MS)}

\* rateLimit, in-memory fallback
memoryFallback(key, t, map, limit) ==
    LET rec0 == IF key \in DOMAIN map THEN map[key]
                ELSE [count |-> 0, resetAt |-> t + WINDOW_MS]
        rec1 == IF t > rec0.resetAt
                THEN [count |-> 0, resetAt |-> t + WINDOW_MS]
                ELSE rec0
        rec2 == [rec1 EXCEPT !.count = rec1.count + 1]
    IN  [allowed |-> rec2.count <= limit, memoryHits |-> Put(map, key, rec2)]

\* rateLimit(req) with the client's ip, getRedis() returning a client or
\* null, and the outcome of pipeline.exec()
rateLimit(ip, redis, exec) ==
    LET limit == RATE_LIMIT_PER_MINUTE
        members == IF ip \in DOMAIN zset THEN zset[ip] ELSE {}
        after == redisPipeline(members, now)
        mem == memoryFallback(ip, now, memoryHits, limit)
        call == [ip |-> ip, t |-> now, exec |-> IF redis = "on" THEN exec ELSE "off"]
    IN  IF redis = "on" /\ exec = "ok"
        THEN /\ zset' = Put(zset, ip, after)
             /\ admitted' = IF Cardinality(after) > limit THEN admitted
                            ELSE Append(admitted, [ip |-> ip, t |-> now, via |-> "redis"])
             /\ decisions' = Append(decisions,
                                    call @@ [allowed |-> ~(Cardinality(after) > limit)])
             /\ UNCHANGED memoryHits
        ELSE IF redis = "on" /\ exec = "cmderr"
        THEN /\ admitted' = Append(admitted, [ip |-> ip, t |-> now, via |-> "redis"])
             /\ decisions' = Append(decisions, call @@ [allowed |-> TRUE])
             /\ UNCHANGED <<zset, memoryHits>>
        ELSE /\ memoryHits' = mem.memoryHits
             /\ admitted' = IF mem.allowed
                            THEN Append(admitted, [ip |-> ip, t |-> now, via |-> "memory"])
                            ELSE admitted
             /\ decisions' = Append(decisions, call @@ [allowed |-> mem.allowed])
             /\ UNCHANGED zset

CallRateLimit ==
    \E ip \in IPs, exec \in ExecOutcomes :
        /\ deployment \in {"memory", "redis"}
        /\ calls < MaxCalls
        /\ deployment = "memory" => exec = "ok"
        /\ calls' = calls + 1
        /\ rateLimit(ip, IF deployment = "redis" THEN "on" ELSE "off", exec)
        /\ UNCHANGED <<deployment, now, ticks, hits, hostVars, sanVars, reqVars, inspVars, logVars>>

CallRateLimitOk ==
    \E ip \in IPs :
        LET r == rateLimitOk_result(ip, now, hits)
        IN  /\ deployment = "legacy"
            /\ calls < MaxLegacyCalls
            /\ calls' = calls + 1
            /\ hits' = r.hits
            /\ admitted' = IF r.allowed
                           THEN Append(admitted, [ip |-> ip, t |-> now, via |-> "legacy"])
                           ELSE admitted
            /\ UNCHANGED <<deployment, now, ticks, memoryHits, zset, decisions,
                           hostVars, sanVars, reqVars, inspVars, logVars>>

\* Date.now() moves on
Tick ==
    \E d \in Deltas :
        /\ ticks < MaxTicks
        /\ now' = now + d
        /\ ticks' = ticks + 1
        /\ UNCHANGED <<deployment, calls, memoryHits, hits, zset, admitted, decisions,
                       hostVars, sanVars, reqVars, inspVars, logVars>>

\* the setInterval callback: drop expired records
Sweep ==
    LET oldHits == {ip \in DOMAIN hits : now - hits[ip].ts > WINDOW_MS}
        oldMem == {k \in DOMAIN memoryHits : now > memoryHits[k].resetAt}
    IN  /\ oldHits \cup oldMem # {}
        /\ hits' = Remove(hits, oldHits)
        /\ memoryHits' = Remove(memoryHits, oldMem)
        /\ UNCHANGED <<deployment, now, ticks, calls, zset, admitted, decisions,
                       hostVars, sanVars, reqVars, inspVars, logVars>>

InitRL ==
    /\ deployment \in Deployments
    /\ now = 0
    /\ ticks = 0
    /\ calls = 0
    /\ memoryHits = EmptyMap
    /\ hits = EmptyMap
    /\ zset = EmptyMap
    /\ admitted = <<>>
    /\ decisions = <<>>
    /\ HostIdle
    /\ SanIdle
    /\ ReqIdle
    /\ InspIdle
    /\ LogIdle

NextRL == CallRateLimit \/ CallRateLimitOk \/ Tick \/ Sweep

SpecRL == InitRL /\ [][NextRL]_vars

(***************************************************************************)
(* POST /api/download (app/api/download/route.ts): one request.            *)
(* Every action is one callback of the event loop: the code from one       *)
(* await, event or timer to the next.  Timers fire in any order.           *)
(***************************************************************************)
\* the client of the request
ClientIp == "10.0.0.1"

U(scheme, user, host, segs, trail) ==
    [scheme |-> scheme, user |-> user, host |-> host,
     path |-> [segs |-> segs, trail |-> trail], wellFormed |-> TRUE]

ReqUrls ==
    { U("https", FALSE, <<"tv", "nrk", "no">>, <<"serie", "x", "s1e1">>, FALSE),
      U("https", FALSE, <<"tv", "nrk", "no">>, <<"serie", "x">>, FALSE),
      U("https", FALSE, <<"WWW", "tv", "nrk", "no">>, <<"serie", "x", "s1e1">>, FALSE),
      U("https", FALSE, <<"www", "nrk", "no">>, <<>>, TRUE),
      U("https", FALSE, <<"nrk", "no">>, <<"video", "x">>, FALSE),
      U("https", FALSE, <<"nrk", "no">>, <<"nyheter", "x">>, FALSE),
      U("http", FALSE, <<"tv", "nrk", "no">>, <<"serie", "x", "s1e1">>, FALSE),
      U("https", TRUE, <<"nrk", "no">>, <<"video", "x">>, FALSE),
      U("https", FALSE, <<"evil", "nrk", "no">>, <<"video", "x">>, FALSE),
      U("https", FALSE, <<"nrk", "no", "evil", "com">>, <<"video", "x">>, FALSE),
      U("https", FALSE, <<"evil", "com">>, <<"video", "x">>, FALSE),
      U("https", FALSE, <<"localhost">>, <<"video", "x">>, FALSE),
      U("https", FALSE, <<"127", "0", "0", "1">>, <<"video", "x">>, FALSE),
      U("ftp", FALSE, <<"tv", "nrk", "no">>, <<"serie", "x", "s1e1">>, FALSE),
      U("https", FALSE, <<"radio", "nrk", "no">>, <<"serie", "x">>, FALSE),
      U("https", FALSE, <<"nrk", "no">>, <<>>, TRUE),
      [U("https", FALSE, <<"tv", "nrk", "no">>, <<"video", "x">>, FALSE)
          EXCEPT !.wellFormed = FALSE] }

\* a body is no JSON, JSON without a url string, or JSON with a url; the url
\* may be the same URL pasted twice
Bodies ==
    {[kind |-> "badjson"], [kind |-> "nourl"]}
        \cup {[kind |-> "url", url |-> u, dup |-> FALSE] : u \in ReqUrls}
        \cup {[kind |-> "url", url |-> u, dup |-> TRUE] :
                u \in {v \in ReqUrls : v.host \in {<<"tv", "nrk", "no">>, <<"evil", "com">>}
                                          /\ v.scheme = "https" /\ v.wellFormed
                                          /\ Len(v.path.segs) = 3}}

\* url.includes('nrk.no') on the string as typed
includesNrkNo(u) ==
    \E i \in 1..(Len(u.host) - 1) : u.host[i] = "nrk" /\ u.host[i + 1] = "no"

\* route.ts POST "Clean duplicated URL": a URL pasted twice is cut back to
\* its first copy when it names nrk.no; otherwise the doubled string stays,
\* and its second copy is read as part of the path
cleanUrl(b) ==
    IF ~b.dup \/ includesNrkNo(b.url) THEN b.url
    ELSE LET segs == b.url.path.segs
             glued == IF b.url.path.trail \/ segs = <<>> THEN segs \o <<"https:">>
                      ELSE SubSeq(segs, 1, Len(segs) - 1) \o <<"glued">>
         IN  [b.url EXCEPT !.path.segs = glued \o <<"host">> \o segs]

\* route.ts POST lines 626-661: the code of the 400 answer
rejectionCode(u) ==
    LET parsed == URLparse(u)
    IN  IF ~parsed.ok THEN "DOMAIN_NOT_ALLOWED"
        ELSE IF /\ parsed.hostname \in {<<"nrk", "no">>, <<"www", "nrk", "no">>}
                /\ parsed.pathname.segs = <<>>
             THEN "NOT_VIDEO_PAGE"
        ELSE IF /\ parsed.hostname = <<"tv", "nrk", "no">>
                /\ PathStartsWith(lowerPath(parsed.pathname), "serie")
                /\ Len(parsed.pathname.segs) = 2
             THEN "SERIES_PAGE"
        ELSE "DOMAIN_NOT_ALLOWED"

\* route.ts line 140
ALLOWED_HOSTS ==
    { <<"tv", "nrk", "no">>, <<"www", "nrk", "no">>, <<"nrk", "no">>,
      <<"radio", "nrk", "no">> }

\* route.ts isAllowedNrk, the older check: http and https, no IP literal,
\* no localhost or .local, no userinfo, the host exactly one of ALLOWED_HOSTS
isAllowedNrk(urlStr) ==
    LET u == URLparse(urlStr)
    IN  IF ~u.ok THEN FALSE
        ELSE IF u.protocol \notin {"http", "https"} THEN FALSE
        ELSE IF \/ Len(u.hostname) = 4 /\ \A i \in 1..4 : u.hostname[i] \in DigitLabels
                \/ \E i \in 1..Len(u.hostname) : u.hostname[i] = "[::1]"
             THEN FALSE
        ELSE IF \/ u.hostname = <<"localhost">>
                \/ u.hostname[Len(u.hostname)] = "local"
             THEN FALSE
        ELSE IF u.username THEN FALSE
        ELSE IF u.hostname \notin ALLOWED_HOSTS THEN FALSE
        ELSE LET path == lowerPath(u.pathname)
             IN  IF u.hostname \in {<<"tv", "nrk", "no">>, <<"radio", "nrk", "no">>}
                 THEN ~(PathStartsWith(path, "serie") /\ Len(path.segs) = 2)
                 ELSE IF path.segs = <<>> THEN FALSE
                 ELSE \E p \in videoPathPatterns : PathStartsWith(path, p)

\* route.ts POST lines 618-620, the try block: env.ALLOW_DOMAINS is an array
\* of strings whatever the environment holds (env.ts getEnv / getEnvValue
\* fall back to defaults), normalizeHost catches punycode's error, and
\* isAllowedUrl turns every exception of its body into false, so the block
\* ends with a value and never with an exception
validationOutcome_throws(urlStr) == [threw |-> TRUE, value |-> FALSE]

validationOutcome(urlStr) == [threw |-> FALSE, value |-> isAllowedUrl(urlStr, allow)]

\* route.ts POST lines 617-624: urlValid, by the new check or, when that
\* threw, by isAllowedNrk
urlValid(urlStr) ==
    LET r == validationOutcome(urlStr)
    IN  IF r.threw THEN isAllowedNrk(urlStr) ELSE r.value

\* ChildProcess.kill(signal): delivers the signal to a process that is
\* still there and then sets .killed; does nothing once the process is gone
kill(c, sig) ==
    IF c.st # "running" THEN c
    ELSE [c EXCEPT !.killed = TRUE,
                   !.term = @ \/ sig = "SIGTERM",
                   !.kill = @ \/ sig = "SIGKILL"]

\* spawn('yt-dlp', ...): the process starts, or cannot be started
Spawn(ok, ignores) ==
    [st |-> IF ok THEN "running" ELSE "failed", killed |-> FALSE, term |-> FALSE,
     kill |-> FALSE, ignoresTerm |-> ignores, stdout |-> IF ok THEN "open" ELSE "none"]

\* the exit codes a running child can end with: its own, or null when a
\* signal it does not ignore ends it
ExitCodes(c) ==
    {"0", "1"} \cup (IF c.kill \/ (c.term /\ ~c.ignoresTerm) THEN {"null"} ELSE {})

InitReq ==
    /\ body \in Bodies
    /\ url = NoUrl
    /\ pc = "start"
    /\ response = NoResponse
    /\ aborted = FALSE
    /\ listeners = <<>>
    /\ child = [k \in Kinds |-> NoChild]
    /\ spawned = <<>>
    /\ dp = NoDp
    /\ grace = [k \in Kinds |-> 0]
    /\ tp = NoTp
    /\ tempCalls = 0
    /\ files = {}
    /\ cleanups = [x \in Sites |-> NoCleanup]
    \* the limiter has seen no request of this client, or as many as it admits
    /\ deployment = "memory"
    /\ now = 0
    /\ ticks = 0
    /\ calls = 0
    /\ memoryHits \in {EmptyMap,
                       Put(EmptyMap, ClientIp,
                           [count |-> RATE_LIMIT_PER_MINUTE, resetAt |-> WINDOW_MS])}
    /\ hits = EmptyMap
    /\ zset = EmptyMap
    /\ admitted = <<>>
    /\ decisions = <<>>
    /\ HostIdle
    /\ SanIdle
    /\ InspIdle
    /\ LogIdle

\* POST lines 538-569: request id, rate limit
Receive_ignoresDenial ==
    /\ pc = "start"
    /\ calls' = calls + 1
    /\ rateLimit(ClientIp, "off", "ok")
    /\ pc' = "parse"
    /\ UNCHANGED <<deployment, now, ticks, hits, body, url, response, aborted, listeners,
                   child, spawned, dp, grace, tp, tempCalls, files, cleanups, hostVars,
                   sanVars, inspVars, logVars>>

Receive ==
    /\ pc = "start"
    /\ calls' = calls + 1
    /\ rateLimit(ClientIp, "off", "ok")
    /\ IF Len(admitted') = Len(admitted)
       THEN /\ response' = rateLimited
            /\ pc' = "done"
       ELSE /\ pc' = "parse"
            /\ UNCHANGED response
    /\ UNCHANGED <<deployment, now, ticks, hits, body, url, aborted, listeners, child,
                   spawned, dp, grace, tp, tempCalls, files, cleanups, hostVars, sanVars,
                   inspVars, logVars>>

\* POST lines 571-670: req.json() settles; the url is cleaned and validated,
\* getVideoTitle runs yt-dlp synchronously, ensureTmpDir is called
ParseBody ==
    /\ pc = "parse"
    /\ IF body.kind = "badjson"
       THEN /\ response' = apiError("INVALID_REQUEST", 400, TRUE)
            /\ pc' = "done"
            /\ UNCHANGED <<url, child, spawned>>
       ELSE IF body.kind = "nourl"
       THEN /\ response' = apiError("INVALID_URL", 400, TRUE)
            /\ pc' = "done"
            /\ UNCHANGED <<url, child, spawned>>
       ELSE LET cleaned == cleanUrl(body)
            IN  /\ url' = cleaned
                /\ IF ~urlValid(cleaned)
                   THEN /\ response' = apiError(rejectionCode(cleaned), 400, TRUE)
                        /\ pc' = "done"
                        /\ UNCHANGED <<child, spawned>>
                   ELSE \* getVideoTitle: spawnSync returns when yt-dlp is gone
                        /\ child' = [child EXCEPT !["title"] =
                                        [Spawn(TRUE, FALSE) EXCEPT !.st = "exited",
                                                                   !.stdout = "closed"]]
                        /\ spawned' = Append(spawned, "title")
                        /\ pc' = "mkdir"
                        /\ UNCHANGED response
    /\ UNCHANGED <<body, aborted, listeners, dp, grace, tp, tempCalls, files, cleanups,
                   rlVars, hostVars, sanVars, inspVars, logVars>>

\* POST line 670 settles; on success streamFromStdout (lines 262-392) runs
\* up to its promise: spawn, abort listener, stream, start timer
EnsureTmpDir ==
    /\ pc = "mkdir"
    /\ \E mkdirOk \in BOOLEAN, spawnOk \in BOOLEAN, ignores \in BOOLEAN :
        IF ~mkdirOk
        THEN /\ response' = unhandledError
             /\ pc' = "done"
             /\ UNCHANGED <<child, spawned, listeners, dp>>
        ELSE /\ spawnOk \/ ~ignores
             /\ child' = [child EXCEPT !["direct"] = Spawn(spawnOk, ignores)]
             /\ spawned' = Append(spawned, "direct")
             /\ listeners' = Append(listeners, "onAbort")
             /\ dp' = [NoDp EXCEPT !.promise = "pending", !.timer = "armed", !.stream = "open"]
             /\ pc' = "direct"
             /\ UNCHANGED response
    /\ UNCHANGED <<body, url, aborted, grace, tp, tempCalls, files, cleanups,
                   rlVars, hostVars, sanVars, inspVars, logVars>>

\* POST lines 675-700: what the handler does once streamFromStdout's promise
\* has settled: return the 200 response, or call streamFromTempFile
POSTafterDirect_noFallback(promise) == "return"

POSTafterDirect(promise) == IF promise = "rejected" THEN "fallback" ELSE "return"

\* the handler resumes after streamFromStdout's promise changed from dp.promise
DirectSettles(newPromise) ==
    IF newPromise = dp.promise
    THEN UNCHANGED <<pc, response, tempCalls>>
    ELSE IF POSTafterDirect(newPromise) = "fallback"
    THEN \* streamFromTempFile is called and awaits ensureTmpDir (line 399)
         /\ pc' = "fallback_mkdir"
         /\ tempCalls' = tempCalls + 1
         /\ UNCHANGED response
    ELSE /\ pc' = "done"
         /\ response' = IF newPromise = "resolved" THEN streamResponse("direct")
                        ELSE apiError("YTDLP_FAILED", 500, TRUE)
         /\ UNCHANGED tempCalls

\* streamFromStdout.onAbort lines 273-284, its effect on the child
onAbort(c) == kill(c, "SIGTERM")

abortHandler_noKill(c) == c

\* streamFromTempFile.abortHandler lines 429-436, its effect on the child
abortHandler(c) == kill(c, "SIGTERM")

\* controller.enqueue(data), lines 290-296: the chunk joins the end of the
\* stream's queue; on a stream that is closed, errored or cancelled enqueue
\* throws, and the exception is logged and dropped
enqueue_prepends(d, data) ==
    IF d.stream = "open" THEN <<data>> \o d.queue ELSE d.queue

enqueue(d, data) ==
    IF d.stream = "open" THEN Append(d.queue, data) ELSE d.queue

\* child.stdout 'data': lines 290-296 (enqueue) and 341-353 (first chunk)
DirectData_noErroredTest ==
    /\ child["direct"].st \in {"running", "exited"}
    /\ child["direct"].stdout = "open"
    /\ dp.seen < MaxChunks
    /\ LET first == dp.seen = 0
           dp1 == [dp EXCEPT !.seen = @ + 1,
                             !.chunks = IF dp.stream = "open" THEN @ + 1 ELSE @,
                             !.queue = enqueue(dp, dp.seen + 1),
                             !.hasStarted = @ \/ first,
                             !.timer = IF first THEN "cleared" ELSE @,
                             !.promise = IF first THEN "resolved" ELSE @]
       IN  /\ dp' = dp1
           /\ DirectSettles(dp1.promise)
    /\ UNCHANGED <<body, url, aborted, listeners, child, spawned, grace, tp, files,
                   cleanups, rlVars, hostVars, sanVars, inspVars, logVars>>

DirectData ==
    /\ child["direct"].st \in {"running", "exited"}
    /\ child["direct"].stdout = "open"
    /\ dp.seen < MaxChunks
    /\ LET first == dp.seen = 0 /\ ~dp.hasErrored
           dp1 == [dp EXCEPT !.seen = @ + 1,
                             !.chunks = IF dp.stream = "open" THEN @ + 1 ELSE @,
                             !.queue = enqueue(dp, dp.seen + 1),
                             !.hasStarted = @ \/ first,
                             !.timer = IF first THEN "cleared" ELSE @,
                             !.promise = IF first THEN "resolved" ELSE @]
       IN  /\ dp' = dp1
           /\ DirectSettles(dp1.promise)
    /\ UNCHANGED <<body, url, aborted, listeners, child, spawned, grace, tp, files,
                   cleanups, rlVars, hostVars, sanVars, inspVars, logVars>>

\* child 'exit': lines 355-380
DirectExit ==
    /\ child["direct"].st = "running"
    /\ \E code \in ExitCodes(child["direct"]) :
        LET fails == ~dp.hasErrored /\ code = "1" /\ ~dp.hasStarted
            dp1 == [dp EXCEPT !.hasErrored = @ \/ fails,
                              !.timer = IF fails THEN "cleared" ELSE @,
                              !.promise = IF fails THEN "rejected" ELSE @,
                              !.nonZero = code = "1"]
        IN  /\ child' = [child EXCEPT !["direct"].st = "exited"]
            /\ dp' = dp1
            /\ DirectSettles(dp1.promise)
    /\ UNCHANGED <<body, url, aborted, listeners, spawned, grace, tp, files,
                   cleanups, rlVars, hostVars, sanVars, inspVars, logVars>>

\* child 'close': lines 298-310
DirectClose ==
    /\ child["direct"].st = "exited"
    /\ child["direct"].stdout = "open"
    /\ child' = [child EXCEPT !["direct"].stdout = "closed"]
    /\ dp' = [dp EXCEPT !.stream = IF @ = "open" THEN "closed" ELSE @]
    /\ UNCHANGED <<body, url, pc, response, aborted, listeners, spawned, grace, tp,
                   tempCalls, files, cleanups, rlVars, hostVars, sanVars,
                   inspVars, logVars>>

\* child 'error' (the process could not be started): lines 312-319, 382-391
DirectSpawnError ==
    /\ child["direct"].st = "failed"
    /\ LET fails == ~dp.hasErrored
           dp1 == [dp EXCEPT !.stream = IF @ = "open" THEN "errored" ELSE @,
                             !.hasErrored = TRUE,
                             !.timer = IF fails THEN "cleared" ELSE @,
                             !.promise = IF fails THEN "rejected" ELSE @]
       IN  /\ child' = [child EXCEPT !["direct"].st = "dead"]
           /\ dp' = dp1
           /\ DirectSettles(dp1.promise)
    /\ UNCHANGED <<body, url, aborted, listeners, spawned, grace, tp, files,
                   cleanups, rlVars, hostVars, sanVars, inspVars, logVars>>

\* the 30 s start timer: lines 330-339
DirectTimeout ==
    /\ dp.timer = "armed"
    /\ LET fires == ~dp.hasStarted /\ ~dp.hasErrored
           dp1 == [dp EXCEPT !.timer = "fired",
                             !.hasErrored = @ \/ fires,
                             !.promise = IF fires THEN "rejected" ELSE @]
       IN  /\ dp' = dp1
           /\ child' = IF fires THEN [child EXCEPT !["direct"] = onAbort(@)] ELSE child
           /\ grace' = IF fires THEN [grace EXCEPT !["direct"] = @ + 1] ELSE grace
           /\ DirectSettles(dp1.promise)
    /\ UNCHANGED <<body, url, aborted, listeners, spawned, tp, files,
                   cleanups, rlVars, hostVars, sanVars, inspVars, logVars>>

\* the client cancels the body of the direct 200 response: lines 321-323
StreamCancel ==
    /\ response.kind = "direct"
    /\ dp.stream = "open"
    /\ dp' = [dp EXCEPT !.stream = "cancelled", !.cancelled = TRUE]
    /\ child' = [child EXCEPT !["direct"] = onAbort(@)]
    /\ grace' = [grace EXCEPT !["direct"] = @ + 1]
    /\ UNCHANGED <<body, url, pc, response, aborted, listeners, spawned, tp, tempCalls,
                   files, cleanups, rlVars, hostVars, sanVars, inspVars, logVars>>

\* a SIGKILL timer fires: lines 276-280 (3 s) and 432-436 (5 s)
GraceTimer ==
    \E k \in {"direct", "temp"} :
        /\ grace[k] > 0
        /\ grace' = [grace EXCEPT ![k] = @ - 1]
        /\ child' = IF ~child[k].killed THEN [child EXCEPT ![k] = kill(@, "SIGKILL")]
                    ELSE child
        /\ UNCHANGED <<body, url, pc, response, aborted, listeners, spawned, dp, tp,
                       tempCalls, files, cleanups, rlVars, hostVars, sanVars,
                       inspVars, logVars>>

\* resolveOnce / rejectOnce (lines 406-416) and the handler resuming after
\* streamFromTempFile's promise settled (lines 683-698)
SettleTemp(tpBase, how, resp) ==
    IF tpBase.settled
    THEN /\ tp' = tpBase
         /\ UNCHANGED <<pc, response>>
    ELSE /\ tp' = [tpBase EXCEPT !.settled = TRUE, !.promise = how]
         /\ pc' = "done"
         /\ response' = resp

StartCleanup(site) == [cleanups EXCEPT ![site] = [phase |-> "readdir", snap |-> {}]]

\* streamFromTempFile line 399 settles; on success lines 400-445 run: spawn,
\* abort listener
FallbackMkdir ==
    /\ pc = "fallback_mkdir"
    /\ \E mkdirOk \in BOOLEAN, spawnOk \in BOOLEAN, ignores \in BOOLEAN :
        IF ~mkdirOk
        THEN /\ response' = apiError("EACCES", 500, TRUE)
             /\ pc' = "done"
             /\ UNCHANGED <<child, spawned, listeners, tp>>
        ELSE /\ spawnOk \/ ~ignores
             /\ child' = [child EXCEPT !["temp"] = Spawn(spawnOk, ignores)]
             /\ spawned' = Append(spawned, "temp")
             /\ listeners' = Append(listeners, "abortHandler")
             /\ tp' = [NoTp EXCEPT !.promise = "pending"]
             /\ pc' = "fallback"
             /\ UNCHANGED response
    /\ UNCHANGED <<body, url, aborted, dp, grace, tempCalls, files, cleanups,
                   rlVars, hostVars, sanVars, inspVars, logVars>>

\* the 'abort' event of req.signal: every registered listener runs
Abort ==
    /\ ~aborted
    /\ pc # "done" \/ response.status = 200
    /\ aborted' = TRUE
    /\ LET direct == \E i \in 1..Len(listeners) : listeners[i] = "onAbort"
           temp == \E i \in 1..Len(listeners) : listeners[i] = "abortHandler"
       IN  /\ child' = [child EXCEPT
                           !["direct"] = IF direct THEN onAbort(@) ELSE @,
                           !["temp"] = IF temp THEN abortHandler(@) ELSE @]
           /\ grace' = [grace EXCEPT
                           !["direct"] = IF direct THEN @ + 1 ELSE @,
                           !["temp"] = IF temp THEN @ + 1 ELSE @]
           /\ IF temp
              THEN /\ cleanups' = StartCleanup("abort")
                   /\ SettleTemp(tp, "rejected", apiError("YTDLP_FAILED", 500, TRUE))
              ELSE UNCHANGED <<cleanups, tp, pc, response>>
    /\ UNCHANGED <<body, url, listeners, spawned, dp, tempCalls, files,
                   rlVars, hostVars, sanVars, inspVars, logVars>>

\* yt-dlp (temp-file download) creates a file '<requestId>.<ext>'
TempWrite ==
    /\ child["temp"].st = "running"
    /\ \E f \in FileNames \ files : files' = files \cup {f}
    /\ UNCHANGED <<body, url, pc, response, aborted, listeners, child, spawned, dp,
                   grace, tp, tempCalls, cleanups, rlVars, hostVars, sanVars,
                   inspVars, logVars>>

\* temp child 'exit': lines 447-462, up to the first await
TempExit ==
    /\ child["temp"].st = "running"
    /\ \E code \in ExitCodes(child["temp"]) :
        /\ child' = [child EXCEPT !["temp"].st = "exited"]
        /\ IF code = "1"
           THEN /\ cleanups' = StartCleanup("exit")
                /\ tp' = [tp EXCEPT !.exit = "failCleanup"]
           ELSE /\ tp' = [tp EXCEPT !.exit = "readdir"]
                /\ UNCHANGED cleanups
    /\ UNCHANGED <<body, url, pc, response, aborted, listeners, spawned, dp, grace,
                   tempCalls, files, rlVars, hostVars, sanVars, inspVars, logVars>>

\* the exit handler after fs.readdir: lines 462-518
TempReaddir ==
    /\ tp.exit = "readdir"
    /\ \E readOk \in BOOLEAN, stalls \in BOOLEAN :
        IF ~readOk
        THEN /\ ~stalls
             /\ cleanups' = StartCleanup("exit")
             /\ tp' = [tp EXCEPT !.exit = "catchCleanup"]
             /\ UNCHANGED <<pc, response>>
        ELSE IF files = {}
        THEN /\ ~stalls
             /\ cleanups' = StartCleanup("exit")
             /\ tp' = [tp EXCEPT !.exit = "noFileCleanup"]
             /\ UNCHANGED <<pc, response>>
        ELSE \* createReadStream; a stream nobody reads drains only a small file
             /\ stalls => tp.settled
             /\ SettleTemp([tp EXCEPT !.exit = "done",
                                      !.nodeStream = IF ~tp.settled THEN "open"
                                                     ELSE IF stalls THEN "stalled"
                                                     ELSE "draining"],
                           "resolved", streamResponse("tempfile"))
             /\ UNCHANGED cleanups
    /\ UNCHANGED <<body, url, aborted, listeners, child, spawned, dp, grace,
                   tempCalls, files, rlVars, hostVars, sanVars, inspVars, logVars>>

\* cleanupTempFiles lines 123-132: readdir
CleanupReaddir ==
    \E site \in Sites :
        /\ cleanups[site].phase = "readdir"
        /\ cleanups' = [cleanups EXCEPT ![site] = [phase |-> "unlink", snap |-> files]]
        /\ UNCHANGED <<body, url, pc, response, aborted, listeners, child, spawned, dp,
                       grace, tp, tempCalls, files, rlVars, hostVars, sanVars,
                       inspVars, logVars>>

\* cleanupTempFiles: the unlinks; the exit handler resumes after its await
\* (lines 451, 468, 511)
CleanupUnlink ==
    \E site \in Sites :
        /\ cleanups[site].phase = "unlink"
        /\ cleanups' = [cleanups EXCEPT ![site] = [phase |-> "done", snap |-> {}]]
        /\ files' = files \ cleanups[site].snap
        /\ IF site = "exit"
           THEN SettleTemp([tp EXCEPT !.exit = "done"], "resolved",
                           apiError("YTDLP_FAILED", 500, TRUE))
           ELSE UNCHANGED <<tp, pc, response>>
        /\ UNCHANGED <<body, url, aborted, listeners, child, spawned, dp, grace,
                       tempCalls, rlVars, hostVars, sanVars, inspVars, logVars>>

\* temp child 'error' (the process could not be started): lines 521-531
TempSpawnError ==
    /\ child["temp"].st = "failed"
    /\ child' = [child EXCEPT !["temp"].st = "dead"]
    /\ cleanups' = StartCleanup("procError")
    /\ SettleTemp(tp, "resolved", apiError("YTDLP_FAILED", 500, TRUE))
    /\ UNCHANGED <<body, url, aborted, listeners, spawned, dp, grace,
                   tempCalls, files, rlVars, hostVars, sanVars, inspVars, logVars>>

\* the file stream 'close' (read to its end, or destroyed when the client
\* stops reading): lines 481-483
NodeStreamClose ==
    /\ tp.nodeStream \in {"open", "draining", "errored"}
    /\ tp' = [tp EXCEPT !.nodeStream = "closed"]
    /\ cleanups' = StartCleanup("close")
    /\ UNCHANGED <<body, url, pc, response, aborted, listeners, child, spawned, dp,
                   grace, tempCalls, files, rlVars, hostVars, sanVars, inspVars, logVars>>

\* the file stream 'error': lines 485-495
NodeStreamError ==
    /\ tp.nodeStream \in {"open", "draining", "stalled"}
    /\ cleanups' = StartCleanup("streamError")
    /\ SettleTemp([tp EXCEPT !.nodeStream = "errored"], "resolved",
                  apiError("YTDLP_FAILED", 500, TRUE))
    /\ UNCHANGED <<body, url, aborted, listeners, child, spawned, dp, grace,
                   tempCalls, files, rlVars, hostVars, sanVars, inspVars, logVars>>

(***************************************************************************)
(* GET /api/inspect (app/api/inspect/route.ts): one request.               *)
(***************************************************************************)
\* the url query parameter: absent, or a string
InspectQueries ==
    {[kind |-> "missing"]} \cup {[kind |-> "url", url |-> u] : u \in ReqUrls}

InitInspect ==
    /\ insp \in {[NoInsp EXCEPT !.pc = "start", !.query = q] : q \in InspectQueries}
    /\ ReqIdle
    /\ RlIdle
    /\ HostIdle
    /\ SanIdle
    /\ LogIdle

\* GET lines 13-49: zod's url test, isAllowedUrl, spawn, the 15 s timer
InspectGET ==
    /\ insp.pc = "start"
    /\ \E spawnOk \in BOOLEAN, ignores \in BOOLEAN :
        /\ spawnOk \/ ~ignores
        /\ insp' =
            IF insp.query.kind # "url" \/ ~URLparse(insp.query.url).ok
            THEN [insp EXCEPT !.pc = "done", !.status = 422]
            ELSE IF ~isAllowedUrl(insp.query.url, allow)
            THEN [insp EXCEPT !.pc = "done", !.status = 400, !.url = insp.query.url]
            ELSE [insp EXCEPT !.pc = "wait", !.url = insp.query.url,
                              !.child = Spawn(spawnOk, ignores), !.timer = "armed"]
    /\ UNCHANGED <<hostVars, sanVars, rlVars, reqVars, logVars>>

\* the 15 s timer fires: lines 37-48
InspectTimeout ==
    /\ insp.timer = "armed"
    /\ insp' = [insp EXCEPT !.timer = "fired", !.child = kill(@, "SIGTERM"),
                            !.grace = @ + 1]
    /\ UNCHANGED <<hostVars, sanVars, rlVars, reqVars, logVars>>

\* the 2 s timer fires: lines 40-44
InspectGrace ==
    /\ insp.grace > 0
    /\ insp' = [insp EXCEPT !.grace = @ - 1,
                            !.child = IF ~@.killed THEN kill(@, "SIGKILL") ELSE @]
    /\ UNCHANGED <<hostVars, sanVars, rlVars, reqVars, logVars>>

\* child 'close' (lines 52-55) and the rest of the handler (lines 62-99):
\* res(c ?? 0), 502 for a non-zero code or output that is no JSON
InspectClose ==
    /\ insp.pc = "wait"
    /\ insp.child.st = "running"
    /\ \E code \in ExitCodes(insp.child), json \in BOOLEAN :
        insp' = [insp EXCEPT !.pc = "done",
                            !.child.st = "exited",
                            !.child.stdout = "closed",
                            !.timer = IF @ = "armed" THEN "cleared" ELSE @,
                            !.status = IF code = "1" \/ ~json THEN 502 ELSE 200]
    /\ UNCHANGED <<hostVars, sanVars, rlVars, reqVars, logVars>>

\* child 'error' (lines 56-60): res(1), answered with 502
InspectSpawnError ==
    /\ insp.pc = "wait"
    /\ insp.child.st = "failed"
    /\ insp' = [insp EXCEPT !.pc = "done", !.child.st = "dead",
                            !.timer = IF @ = "armed" THEN "cleared" ELSE @,
                            !.status = 502]
    /\ UNCHANGED <<hostVars, sanVars, rlVars, reqVars, logVars>>

Init == InitReq \/ InitInspect

Next ==
    \/ InspectGET \/ InspectTimeout \/ InspectGrace \/ InspectClose \/ InspectSpawnError
    \/ Receive \/ ParseBody \/ EnsureTmpDir
    \/ DirectData \/ DirectExit \/ DirectClose \/ DirectSpawnError \/ DirectTimeout
    \/ StreamCancel \/ GraceTimer \/ Abort
    \/ FallbackMkdir \/ TempWrite \/ TempExit \/ TempReaddir \/ TempSpawnError
    \/ CleanupReaddir \/ CleanupUnlink \/ NodeStreamClose \/ NodeStreamError

Spec == Init /\ [][Next]_vars

(***************************************************************************)
(* SpecHost: isAllowedUrl on one URL.                                      *)
(***************************************************************************)
InitHost ==
    /\ hUrl \in UrlStrings
    /\ hVerdict = "unset"
    /\ SanIdle
    /\ RlIdle
    /\ ReqIdle
    /\ InspIdle
    /\ LogIdle

CheckUrl ==
    /\ hVerdict = "unset"
    /\ hVerdict' = IF isAllowedUrl(hUrl, allow) THEN "true" ELSE "false"
    /\ UNCHANGED <<hUrl, sanVars, rlVars, reqVars, inspVars, logVars>>

NextHost == CheckUrl

SpecHost == InitHost /\ [][NextHost]_vars

(***************************************************************************)
(* SpecSan: sanitizeFilename on one string.                                *)
(***************************************************************************)
InitSan ==
    /\ sanIn \in SanInputs
    /\ sanDone = FALSE
    /\ sanOut = <<>>
    /\ HostIdle
    /\ RlIdle
    /\ ReqIdle
    /\ InspIdle
    /\ LogIdle

Sanitize ==
    /\ sanDone = FALSE
    /\ sanDone' = TRUE
    /\ sanOut' = sanitizeFilename(sanIn)
    /\ UNCHANGED <<sanIn, hostVars, rlVars, reqVars, inspVars, logVars>>

NextSan == Sanitize

SpecSan == InitSan /\ [][NextSan]_vars

(***************************************************************************)
(* SpecLog: the singleton logger (lib/logger.ts) under the download        *)
(* requests of Requests, whose handlers interleave at their awaits.  The   *)
(* request r has the requestId r.                                          *)
(***************************************************************************)
\* logger.ts setRequestId
setRequestId(id) == loggerRequestId' = id

\* logger.ts formatLog as a request-blind logger would do it: the entry
\* gets the id of the handler that writes it
formatLog_ofCaller(r) == [by |-> r, requestId |-> r]

\* logger.ts formatLog, called by the handler of request r with the field
\* requestId as it is then: requestId: this.requestId || undefined
formatLog(r) == [by |-> r, requestId |-> loggerRequestId']

\* logger.ts log: the entry is written
log(r) == entries' = Append(entries, formatLog(r))

InitLog ==
    /\ loggerRequestId = NoRequestId
    /\ lpc = [r \in Requests |-> "new"]
    /\ entries = <<>>
    /\ HostIdle
    /\ SanIdle
    /\ RlIdle
    /\ ReqIdle
    /\ InspIdle

\* POST lines 538-549: setRequestId, 'Download request received', then the
\* handler awaits rateLimit
LogReceive(r) ==
    /\ lpc[r] = "new"
    /\ setRequestId(r)
    /\ log(r)
    /\ lpc' = [lpc EXCEPT ![r] = "rateLimit"]
    /\ UNCHANGED <<hostVars, sanVars, rlVars, reqVars, inspVars>>

\* POST lines 550-574: after rateLimit; a denied request logs
\* rateLimitHit and is answered, an admitted one awaits req.json()
LogAfterRateLimit(r) ==
    /\ lpc[r] = "rateLimit"
    /\ \E allowed \in BOOLEAN :
        IF allowed
        THEN /\ lpc' = [lpc EXCEPT ![r] = "json"]
             /\ UNCHANGED <<loggerRequestId, entries>>
        ELSE /\ lpc' = [lpc EXCEPT ![r] = "done"]
             /\ UNCHANGED loggerRequestId
             /\ log(r)
    /\ UNCHANGED <<hostVars, sanVars, rlVars, reqVars, inspVars>>

\* POST lines 575-670: after req.json(); a refused body or URL logs a
\* warning and is answered, an accepted one logs downloadStart and awaits
\* ensureTmpDir and streamFromStdout
LogAfterBody(r) ==
    /\ lpc[r] = "json"
    /\ \E valid \in BOOLEAN :
        lpc' = [lpc EXCEPT ![r] = IF valid THEN "stream" ELSE "done"]
    /\ UNCHANGED <<loggerRequestId, hostVars, sanVars, rlVars, reqVars, inspVars>>
    /\ log(r)

\* POST lines 676-698: the stream promise settles; downloadComplete or the
\* fallback warning is logged
LogAfterStream(r) ==
    /\ lpc[r] = "stream"
    /\ lpc' = [lpc EXCEPT ![r] = "done"]
    /\ UNCHANGED <<loggerRequestId, hostVars, sanVars, rlVars, reqVars, inspVars>>
    /\ log(r)

NextLog ==
    \E r \in Requests :
        LogReceive(r) \/ LogAfterRateLimit(r) \/ LogAfterBody(r) \/ LogAfterStream(r)

SpecLog == InitLog /\ [][NextLog]_vars

(***************************************************************************)
(* Claims about isAllowedUrl (SpecHost).                                   *)
(***************************************************************************)
\* the hostname as typed, lower-cased
TypedHost(urlStr) == [i \in 1..Len(urlStr.host) |-> toLowerCase(urlStr.host[i])]

\* a host without one leading "www" label
WithoutWww(h) == IF Len(h) > 1 /\ h[1] = "www" THEN Tail(h) ELSE h

\* C2 (as stated): isAllowedUrl returns true only for a URL whose hostname
\* is, case-insensitively, exactly one of the hostnames listed in the
\* allow-list; a listed name with an extra label in front is rejected.
C2_ExactListedHost ==
    hVerdict = "true" => TypedHost(hUrl) \in Range(ALLOW_DOMAINS)

\* C2 (amended): isAllowedUrl returns true only for a URL whose hostname,
\* lower-cased and with one leading "www." removed, equals an allow-list
\* entry with its leading "www." removed; every other variant is rejected.
C2_ListedUpToWww ==
    hVerdict = "true" =>
        WithoutWww(TypedHost(hUrl)) \in {WithoutWww(a) : a \in Range(ALLOW_DOMAINS)}

\* an upper-case, www-prefixed spelling of a listed host has been accepted
C2_Witness ==
    /\ hVerdict = "true"
    /\ hUrl.host = <<"WWW", "tv", "nrk", "no">>

(***************************************************************************)
(* Claims about sanitizeFilename (SpecSan).                                *)
(***************************************************************************)
\* C10: for every input, sanitizeFilename returns a string of at most 120
\* characters that contains none of / \ : * ? " < > | and no control
\* character.
C10_SafeName ==
    sanDone =>
        /\ Len(sanOut) <= 120
        /\ \A i \in 1..Len(sanOut) : sanOut[i] \notin ForbiddenChars \cup ControlChars

\* an over-long input holding a separator (also in its fullwidth form) and a
\* control character has been sanitised
C10_Witness ==
    /\ sanDone
    /\ Len(sanIn) > 120
    /\ \E i, j \in 1..Len(sanIn) : sanIn[i] \in {"/", "U+FF0F"} /\ sanIn[j] \in ControlChars

(***************************************************************************)
(* Claims about the rate limiters (SpecRL).                                *)
(***************************************************************************)
LimitOf(via) == IF via = "legacy" THEN MAX_REQUESTS ELSE RATE_LIMIT_PER_MINUTE

\* the requests of one client one limiter let through in the 60 seconds
\* that start with the i-th admitted request
AdmittedInWindowFrom(i) ==
    {j \in 1..Len(admitted) :
        /\ admitted[j].ip = admitted[i].ip
        /\ admitted[j].via = admitted[i].via
        /\ admitted[i].t <= admitted[j].t
        /\ admitted[j].t < admitted[i].t + WINDOW_MS}

\* C3: the in-memory limiters are sliding windows: for every client and
\* every interval of 60 seconds, rateLimit's in-memory fallback admits at
\* most RATE_LIMIT_PER_MINUTE requests and rateLimitOk at most 5.
C3_SlidingWindow ==
    \A i \in 1..Len(admitted) :
        admitted[i].via \in {"memory", "legacy"} =>
            Cardinality(AdmittedInWindowFrom(i)) <= LimitOf(admitted[i].via)

(***************************************************************************)
(* Claims about POST /api/download (Spec).                                 *)
(***************************************************************************)
\* the host of the handler's url, after normalizeHost, is on the allow-list
HostListed(u) ==
    /\ URLparse(u).ok
    /\ normalizeHost(URLparse(u).hostname) \in Range(ALLOW_DOMAINS)

\* C1: a yt-dlp subprocess (title lookup, direct stream, temp-file download)
\* is started only for a URL whose host, after normalizeHost, is on the
\* allow-list; a URL whose host is not is answered with status 400 and
\* nothing is spawned.
C1_SpawnOnlyAllowedHost ==
    /\ spawned # <<>> => url # NoUrl /\ HostListed(url)
    /\ (url # NoUrl /\ ~HostListed(url)) =>
            /\ pc = "done"
            /\ response.status = 400
            /\ spawned = <<>>

\* all three kinds of yt-dlp child have been started for one request
C1_Witness ==
    /\ spawned = <<"title", "direct", "temp">>
    /\ HostListed(url)

\* C4: within one request streamFromTempFile is started if and only if
\* streamFromStdout rejected, and at most once.
C4_FallbackIffDirectRejected ==
    /\ tempCalls <= 1
    /\ tempCalls = 1 <=> dp.promise = "rejected"

\* the direct attempt rejected and the temp-file download is running
C4_Witness ==
    /\ dp.promise = "rejected"
    /\ tempCalls = 1
    /\ child["temp"].st = "running"

\* C5: when the abort signal fires, or the body of the direct response is
\* cancelled, while a child started by streamFromStdout or
\* streamFromTempFile is still running, SIGTERM is sent to that child.
C5_AbortSendsSigterm ==
    [][ /\ (aborted' /\ ~aborted) =>
              \A k \in {"direct", "temp"} :
                  child[k].st = "running" => child'[k].term
        /\ (dp'.cancelled /\ ~dp.cancelled) =>
              (child["direct"].st = "running" => child'["direct"].term) ]_vars

\* the abort fired while the temp-file child was running, and reached it
C5_Witness ==
    /\ aborted
    /\ child["temp"].st = "running"
    /\ child["temp"].term

\* C6: when a SIGKILL timer ends and the child that was sent SIGTERM has
\* still not exited, SIGKILL is sent to it.
C6_GraceEndsInSigkill ==
    [][ \A k \in {"direct", "temp"} :
            (grace'[k] < grace[k] /\ child[k].st = "running" /\ child[k].term)
                => child'[k].kill ]_vars

\* C7: once the client has aborted the request, no further yt-dlp
\* subprocess is started for it.
C7_NoSpawnAfterAbort ==
    [][ aborted => spawned' = spawned ]_vars

\* nothing is left to happen for the request: the handler has answered, no
\* child is running, no handler, cleanup or readable file stream is pending
RequestOver ==
    /\ pc = "done"
    /\ \A k \in Kinds : child[k].st \notin {"running", "failed"}
    /\ tp.exit \in {"none", "done"}
    /\ tp.nodeStream \in {"none", "closed", "stalled"}
    /\ \A site \in Sites : cleanups[site].phase \in {"idle", "done"}

\* C8: for a request that entered the temp-file strategy, once the request
\* is over TMP_DIR holds no file named '<requestId>.*'.
C8_TempFilesRemoved ==
    (tempCalls = 1 /\ RequestOver) => files = {}

\* C9: every response whose status is not 200 is a JSON object made by
\* apiError with a code and the requestId, with status 429 for
\* RATE_LIMITED, 400 for the five validation codes and 500 otherwise.
C9_StructuredErrors ==
    (response.kind # "none" /\ response.status # 200) =>
        /\ response.kind = "apiError"
        /\ response.requestId
        /\ response.code # "none"
        /\ response.status \in {429, 400, 500}
        /\ response.status = 429 <=> response.code = "RATE_LIMITED"
        /\ response.status = 400 <=>
              response.code \in {"INVALID_REQUEST", "INVALID_URL", "NOT_VIDEO_PAGE",
                                 "SERIES_PAGE", "DOMAIN_NOT_ALLOWED"}

\* C11: the handler calls the limiter before it reads the body; a request
\* the limiter denies is answered with status 429, code RATE_LIMITED and
\* retryAfterMs 60000, its body is never parsed and no yt-dlp is started.
C11_RateLimitFirst ==
    /\ pc \in {"parse", "mkdir", "direct", "fallback_mkdir", "fallback"} =>
            /\ Len(decisions) = 1
            /\ decisions[1].allowed
    /\ (url # NoUrl \/ spawned # <<>>) => (decisions # <<>> /\ decisions[1].allowed)
    /\ (decisions # <<>> /\ ~decisions[1].allowed) =>
            /\ pc = "done"
            /\ response = rateLimited
            /\ response.status = 429
            /\ response.code = "RATE_LIMITED"
            /\ response.retryAfterMs = 60000
            /\ url = NoUrl
            /\ spawned = <<>>

\* the limiter denied a request whose body holds an acceptable URL
C11_Witness ==
    /\ decisions # <<>>
    /\ ~decisions[1].allowed
    /\ response.code = "RATE_LIMITED"
    /\ body.kind = "url"
    /\ isAllowedUrl(body.url, allow)

\* the URL carries userinfo, names an IP literal or localhost, or has a
\* scheme other than http and https
UrlTrick(u) ==
    /\ u.wellFormed
    /\ \/ u.user
       \/ isIpLike(u.host)
       \/ u.scheme \notin {"http", "https"}

\* C13: a URL with userinfo, with an IP literal or localhost as host, or
\* with a scheme that is not HTTP(S) is answered with status 400 and no
\* yt-dlp is started for it.
C13_TricksRejected ==
    (url # NoUrl /\ UrlTrick(url)) =>
        /\ pc = "done"
        /\ response.status = 400
        /\ spawned = <<>>

\* C14: no run of POST /api/download or GET /api/inspect starts yt-dlp for a
\* URL whose scheme is http: a URL for which a child was started has scheme
\* https and was admitted by isAllowedUrl, never by isAllowedNrk alone.
C14_HttpsOnly ==
    /\ spawned # <<>> => (url.scheme = "https" /\ isAllowedUrl(url, allow))
    /\ insp.child.st # "none" =>
            (insp.url.scheme = "https" /\ isAllowedUrl(insp.url, allow))
    /\ (url # NoUrl /\ url.scheme = "http") => (pc = "done" /\ response.status = 400)
    /\ (insp.query.kind = "url" /\ insp.query.url.scheme = "http" /\ insp.pc = "done")
            => insp.status \in {400, 422}

\* an http URL that isAllowedNrk accepts has been refused by POST
C14_Witness ==
    /\ url # NoUrl
    /\ url.scheme = "http"
    /\ isAllowedNrk(url)
    /\ response.status = 400

\* the URL is a series overview page: /serie/<name> on tv.nrk.no or radio.nrk.no
SeriesPage(u) ==
    /\ URLparse(u).ok
    /\ URLparse(u).hostname \in {<<"tv", "nrk", "no">>, <<"radio", "nrk", "no">>}
    /\ Len(u.path.segs) = 2
    /\ toLowerCase(u.path.segs[1]) = "serie"

\* the URL is the front page of nrk.no or www.nrk.no
FrontPage(u) ==
    /\ URLparse(u).ok
    /\ URLparse(u).hostname \in {<<"nrk", "no">>, <<"www", "nrk", "no">>}
    /\ u.path.segs = <<>>

\* C15: a request for a series overview page is answered with status 400
\* and code SERIES_PAGE, a request for the front page of nrk.no or
\* www.nrk.no with status 400 and code NOT_VIDEO_PAGE.
C15_SpecificRejections ==
    /\ (url # NoUrl /\ SeriesPage(url)) =>
            /\ pc = "done"
            /\ response.status = 400
            /\ response.code = "SERIES_PAGE"
    /\ (url # NoUrl /\ FrontPage(url)) =>
            /\ pc = "done"
            /\ response.status = 400
            /\ response.code = "NOT_VIDEO_PAGE"

\* C16: the direct strategy answers 200 only after yt-dlp has written a
\* chunk to stdout; once the attempt has failed before any chunk (spawn
\* error, non-zero exit, 30 s of silence) it never answers 200.
C16_OkOnlyAfterFirstChunk ==
    /\ response.kind = "direct" =>
            /\ dp.seen >= 1
            /\ dp.hasStarted
            /\ ~dp.hasErrored
    /\ dp.promise = "rejected" => response.kind # "direct"
    /\ dp.promise = "resolved" => dp.seen >= 1

\* a chunk arrived after the 30 s timer had given up on the direct attempt
C16_Witness ==
    /\ dp.timer = "fired"
    /\ dp.promise = "rejected"
    /\ dp.seen >= 1
    /\ response.kind # "direct"

\* C17: a non-zero exit of yt-dlp is reported in every phase: before the
\* first chunk the direct promise rejects, and once the 200 response is out
\* its body does not end as a normally closed stream.
C17_NonZeroExitReported ==
    /\ (dp.nonZero /\ ~dp.hasStarted) => dp.promise = "rejected"
    /\ (dp.nonZero /\ response.kind = "direct") => dp.stream # "closed"

\* the chunks yt-dlp has written to stdout so far, in the order written
Emitted == [i \in 1..dp.seen |-> i]

\* C20: until the client cancels, the body of the direct 200 response is
\* exactly the chunks yt-dlp wrote to stdout, in order, none dropped or
\* duplicated, the first one included; the body is closed when the child's
\* streams have closed.
C20_FaithfulPipe ==
    (response.kind = "direct" /\ ~dp.cancelled) =>
        /\ dp.queue = Emitted
        /\ dp.stream \in {"open", "closed"}
        /\ dp.stream = "closed" <=> child["direct"].stdout = "closed"

\* the child wrote all its chunks and closed; the body holds them and is closed
C20_Witness ==
    /\ response.kind = "direct"
    /\ ~dp.cancelled
    /\ dp.seen = MaxChunks
    /\ dp.queue = Emitted
    /\ dp.stream = "closed"

(***************************************************************************)
(* Claims about rateLimit with Redis configured (SpecRL).                  *)
(***************************************************************************)
\* the call of rateLimit that a step has just made
LastDecision == decisions'[Len(decisions')]

\* C12: whenever the Redis pipeline of rateLimit fails (exec rejects,
\* resolves to null, or answers with an error for a command), the call is
\* counted by the in-memory counter of the client and decided by it.
C12_FailedPipelineCounted ==
    [][ (/\ Len(decisions') = Len(decisions) + 1
         /\ LastDecision.exec \in {"reject", "null", "cmderr"}) =>
            /\ memoryHits' # memoryHits
            /\ LastDecision.ip \in DOMAIN memoryHits'
            /\ LastDecision.allowed <=>
                  memoryHits'[LastDecision.ip].count <= RATE_LIMIT_PER_MINUTE ]_vars

\* the requests of the client of call i that Redis has seen within the 60 s
\* before call i, call i included
WindowBefore(i) ==
    {j \in 1..i : /\ decisions[j].ip = decisions[i].ip
                  /\ decisions[j].t > decisions[i].t - WINDOW_MS}

\* C19: with Redis answering every call, a request is admitted if and only
\* if the client's requests of the last 60 s, this one included and each
\* counted once, number at most RATE_LIMIT_PER_MINUTE, also when several of
\* them carry the same millisecond.
C19_RedisSlidingWindow ==
    (\A j \in 1..Len(decisions) : decisions[j].exec = "ok") =>
        \A i \in 1..Len(decisions) :
            decisions[i].allowed <=>
                Cardinality(WindowBefore(i)) <= RATE_LIMIT_PER_MINUTE

(***************************************************************************)
(* Claims about the logger (SpecLog).                                      *)
(***************************************************************************)
\* C18: every log entry written while a download request is handled
\* carries the requestId of that request, also when the handlers of
\* several requests interleave.
C18_OwnRequestId ==
    \A i \in 1..Len(entries) : entries[i].requestId = entries[i].by

====
